---- MODULE Spec2Model ----
(***************************************************************************)
(* A model of the Clones Direct ordering bot (handlers.py, bot.py).        *)
(*                                                                         *)
(* State: the in-memory CART dictionary, the sqlite orders table with its  *)
(* AUTOINCREMENT counter, the operator channel, the wall clock, and the    *)
(* outcome of the handler that ran last (the replies it sent, or the       *)
(* exception it left to the dispatcher's error handler).                   *)
(*                                                                         *)
(* One action per handler or per branch of handle_callback_query.  Each    *)
(* action is the whole handler: the lazy session creation at its head, the *)
(* state it had already written when an exception cut it short, and the    *)
(* helpers it calls.                                                       *)
(*                                                                         *)
(* Text is a sequence of one-character strings, so that lower(), upper(),  *)
(* strip() and the substring tests of the code are computed, not assumed.  *)
(* Money is counted in cents: the code's float 0.05 * (subtotal+shipping)  *)
(* is 5 cents per dollar, exact for every amount the bot can reach         *)
(* (subtotal and shipping are multiples of 20 dollars).                    *)
(*                                                                         *)
(* Environment assumptions: replies to the user are delivered (only the    *)
(* operator notification, which the code guards with try/except, may       *)
(* fail); sqlite and the order log do not fail.                            *)
(***************************************************************************)
EXTENDS Integers, Sequences, FiniteSets, TLC

VARIABLES
    CART,       \* handlers.py:50  uid -> session dict (a function on the uids present)
    orders,     \* the rows of table orders, in rowid order
    lastrowid,  \* sqlite_sequence of table orders (AUTOINCREMENT never reuses an id)
    admin_msgs, \* the send_message attempts to ADMIN_CHAT_ID: <<[order_id, delivered]>>
    now,        \* datetime.now(), in hours
    out,        \* the handler that ran last: [uid, data, arg, msgs, err, total, at]
    accepted,   \* history: uid -> the quantities of the accepted qty_ events whose
                \*          line is still in the cart of the current session
    shown,      \* history: uid -> the total of the summary the user was sent last in
                \*          the current session, <<>> if none
    scen,       \* history: how many events of the §8 scenario the run has been so far
    pItems, pCountry, pMethod, pTotal  \* the pricing harness: arguments and result

vars == <<CART, orders, lastrowid, admin_msgs, now, out, accepted, shown, scen,
          pItems, pCountry, pMethod, pTotal>>

app == <<CART, orders, lastrowid, admin_msgs, now, out, accepted, shown, scen>>
harness == <<pItems, pCountry, pMethod, pTotal>>

-----------------------------------------------------------------------------
(* Bounds of the model.                                                    *)

MaxCart == 2          \* lines a cart may hold, cart specification
MaxLines == 1         \* lines a cart may hold, the other specifications
MaxOrders == 1        \* rows ever inserted, checkout specification
MaxLedger == 2        \* rows ever inserted, ledger specification
MaxTime == 1          \* hours a run may take
MaxQty == 2           \* largest quantity pressed in the cart specification
MaxPriceLines == 2    \* lines of a cart handed to the pricing harness
MaxPriceQty == 4      \* largest quantity of a line handed to the pricing harness
MaxIdle == 3          \* hours a run of the idle specification may take

-----------------------------------------------------------------------------
(* Python values.                                                          *)

None == "None"

\* dict[k] = v
SetKey(d, k, v) == [x \in DOMAIN d \cup {k} |-> IF x = k THEN v ELSE d[x]]
\* del dict[k]
DelKey(d, k) == [x \in DOMAIN d \ {k} |-> d[x]]

\* 0-based position of Python index idx in a list of length n, 0 if there is none
\* (list[idx] raises IndexError exactly when PyPos is 0)
PyPos(n, idx) ==
    IF idx >= 0 /\ idx < n THEN idx + 1
    ELSE IF idx < 0 /\ idx + n >= 0 THEN idx + n + 1
    ELSE 0

\* del list[idx], for an index that is in range
PyDel(s, idx) ==
    LET p == PyPos(Len(s), idx)
    IN  SubSeq(s, 1, p - 1) \o SubSeq(s, p + 1, Len(s))

LowerAlpha == <<"a","b","c","d","e","f","g","h","i","j","k","l","m",
                "n","o","p","q","r","s","t","u","v","w","x","y","z">>
UpperAlpha == <<"A","B","C","D","E","F","G","H","I","J","K","L","M",
                "N","O","P","Q","R","S","T","U","V","W","X","Y","Z">>

LowerChar(c) ==
    IF \E i \in 1..26 : UpperAlpha[i] = c
    THEN LowerAlpha[CHOOSE i \in 1..26 : UpperAlpha[i] = c] ELSE c
UpperChar(c) ==
    IF \E i \in 1..26 : LowerAlpha[i] = c
    THEN UpperAlpha[CHOOSE i \in 1..26 : LowerAlpha[i] = c] ELSE c

\* str.lower(), str.upper()
Lower(s) == [i \in 1..Len(s) |-> LowerChar(s[i])]
Upper(s) == [i \in 1..Len(s) |-> UpperChar(s[i])]

\* sub in s
Contains(s, sub) ==
    \E i \in 1..(Len(s) - Len(sub) + 1) : SubSeq(s, i, i + Len(sub) - 1) = sub

\* str.strip()
Strip(s) ==
    IF \A i \in 1..Len(s) : s[i] = " " THEN <<>>
    ELSE LET a == CHOOSE i \in 1..Len(s) :
                     s[i] # " " /\ \A j \in 1..(i - 1) : s[j] = " "
             b == CHOOSE i \in 1..Len(s) :
                     s[i] # " " /\ \A j \in (i + 1)..Len(s) : s[j] = " "
         IN  SubSeq(s, a, b)

RECURSIVE SumQty(_)
\* sum(i["quantity"] for i in items)
SumQty(items) ==
    IF items = <<>> THEN 0 ELSE Head(items).quantity + SumQty(Tail(items))

RECURSIVE SumSeq(_)
SumSeq(s) == IF s = <<>> THEN 0 ELSE Head(s) + SumSeq(Tail(s))

-----------------------------------------------------------------------------
(* Literals of the code.                                                   *)

PAYPAL == <<"P","a","y","P","a","l">>
MAIL_IN == <<"M","a","i","l"," ","I","n">>
CRYPTO_PREFIX == <<"C","r","y","p","t","o"," ","-"," ">>
USA == <<"U","S","A">>
INTERNATIONAL == <<"I","n","t","e","r","n","a","t","i","o","n","a","l">>
NOT_AVAILABLE == <<"N","/","A">>

\* handle_text's keyword table, in the order the loop visits it
KEYWORDS == << <<"c","l","o","n","e","s">>, <<"s","t","r","a","i","n","s">>,
               <<"m","e","n","u">>, <<"h","o","w"," ","m","u","c","h">>,
               <<"f","a","q">> >>

\* The catalog as handlers.py holds it: the names, sorted by name.lower()
STRAINS ==
    << "Apple Fritter", "Apple Tartz", "Blue Dream", "Blumosa", "Bubba Kush",
       "Bubblegum Cookies", "Candy Rain", "Cinderella's Dream",
       "Enchanted Platinum", "Gelato Cake", "Georgia Pie", "GG4", "GMO",
       "Lottery 2.0", "Orange Push Pop", "Pineapple Haze", "Platinum Garlic",
       "Rainbow Sherbet #11", "Redline Haze", "Sherb Cake", "Sour Tropicookies",
       "Triangle Kush", "Trinity", "Trop Cherries", "White Truffle", "Zookies" >>

\* The replies, by their text
MSG_WELCOME == "Welcome to Clones Direct!"
MSG_UNAUTHORIZED == "Unauthorized."
MSG_NO_PENDING == "No pending orders."
MSG_ORDER_CARD == "Order #"
MSG_COMPLETED == "Marked as completed."
MSG_DELETED == "Deleted."
MSG_STRAIN_NOT_FOUND == "Strain not found."
MSG_STRAIN_DETAILS == "strain details"
MSG_NO_STRAIN == "No strain selected."
MSG_ADDED == "Added to your cart!"
MSG_SELECT_STRAIN == "Select a strain to view details:"
MSG_FAQ == "Frequently Asked Questions"
MSG_CART_EMPTY == "Your cart is empty."
MSG_CART == "Your Cart"
MSG_REMOVED == "Item removed. Refreshing cart..."
MSG_EMPTY_FINALIZE == "Your cart is empty. Add items first!"
MSG_SELECT_PAYMENT == "Select payment method:"
MSG_SELECT_CRYPTO == "Select your crypto:"
MSG_ENTER_CRYPTO == "Enter the crypto token you wish to use"
MSG_COUNTRY == "Where are you shipping to?"
MSG_ENTER_IG == "Please enter your Instagram handle"
MSG_HOW_MANY == "How many clones would you like to add?"
MSG_CONFIRMED == "Order confirmed!"
MSG_SOFT_FAILURE == "Order recorded, but we had trouble notifying our team."
MSG_CANCELED == "Order canceled. Start over with /start."
MSG_NO_STRAINS == "No strains available. Contact support."
MSG_SUMMARY == "Order Summary:"
MSG_USE_BUTTONS == "Please use the buttons or enter a valid command."

-----------------------------------------------------------------------------
(* Users.                                                                  *)

\* uid 1 is a customer, uid 2 the operator's account
Users == {1, 2}

\* update.effective_user.username
Username(uid) == IF uid = 2 THEN "Clones_Direct" ELSE "buyer1"

\* str(update.effective_chat.id) in a private chat
ChatIdStr(uid) == IF uid = 2 THEN "2" ELSE "1"

\* ADMIN_CHAT_ID, the default of handlers.py:14
ADMIN_CHAT_ID == [at |-> TRUE, name |-> "clones_direct"]

\* list_orders' test of the caller (handlers.py:124-126)
IsOperator(uid) ==
    LET admin_id == ADMIN_CHAT_ID.name
    IN  ~(ChatIdStr(uid) # admin_id /\ Username(uid) # "Clones_Direct")

\* uname of confirm_order: "@" + username
Uname(uid) == <<"@", Username(uid)>>

-----------------------------------------------------------------------------
(* Pricing (handlers.py:79-88).  calculate_price is in cents.              *)

\* mutant: the lower tier from the fourth clone on
calculate_subtotal_gt(items) ==
    LET total_qty == SumQty(items)
        price_per == IF total_qty > 3 THEN 60 ELSE 80
    IN  total_qty * price_per

calculate_subtotal(items) ==
    LET total_qty == SumQty(items)
        price_per == IF total_qty >= 3 THEN 60 ELSE 80
    IN  total_qty * price_per

\* mutant: the region compared without lower()
calculate_price_region(items, country, payment_method) ==
    LET subtotal == calculate_subtotal(items)
        shipping == IF country = <<"u","s","a">> THEN 40 ELSE 100
        fee == IF Contains(Lower(payment_method), <<"p","a","y","p","a","l">>)
               THEN 5 * (subtotal + shipping) ELSE 0
    IN  100 * (subtotal + shipping) + fee

calculate_price(items, country, payment_method) ==
    LET subtotal == calculate_subtotal(items)
        shipping == IF Lower(country) = <<"u","s","a">> THEN 40 ELSE 100
        fee == IF Contains(Lower(payment_method), <<"p","a","y","p","a","l">>)
               THEN 5 * (subtotal + shipping) ELSE 0
    IN  100 * (subtotal + shipping) + fee

-----------------------------------------------------------------------------
(* The orders table (handlers.py:20-35, 90-113).                           *)

\* INSERT INTO orders ...: the rows after the insert; the new id is rowid + 1
save_order_to_db(rows, rowid, ts, telegram_user, ig_handle, payment, country, total, items) ==
    Append(rows, [id |-> rowid + 1, timestamp |-> ts, telegram_user |-> telegram_user,
                  ig_handle |-> ig_handle, payment |-> payment, country |-> country,
                  total |-> total, items |-> items, status |-> "pending"])

\* mutant: the UPDATE without its WHERE clause
update_order_status_all(rows, order_id, status) ==
    [i \in 1..Len(rows) |-> [rows[i] EXCEPT !.status = status]]

\* UPDATE orders SET status = ? WHERE id = ?
update_order_status(rows, order_id, status) ==
    [i \in 1..Len(rows) |->
        IF rows[i].id = order_id THEN [rows[i] EXCEPT !.status = status] ELSE rows[i]]

\* DELETE FROM orders WHERE id = ?
delete_order(rows, order_id) == SelectSeq(rows, LAMBDA r : r.id # order_id)

\* SELECT * FROM orders WHERE status = 'pending'
PendingOrders(rows) == SelectSeq(rows, LAMBDA r : r.status = "pending")

-----------------------------------------------------------------------------
(* Sessions (handlers.py:50, 150, 253-254, 281-282).                       *)

\* {"items": [], "state": None}
Fresh == [k \in {"items", "state"} |-> IF k = "items" THEN <<>> ELSE None]

\* if uid not in CART: CART[uid] = {"items": [], "state": None}
Ensure(uid) == IF uid \in DOMAIN CART THEN CART ELSE SetKey(CART, uid, Fresh)

\* mutant: a line of the same strain is overwritten
AppendItem_overwrite(items, strain, qty) ==
    IF \E i \in 1..Len(items) : items[i].strain = strain
    THEN [i \in 1..Len(items) |->
            IF items[i].strain = strain THEN [items[i] EXCEPT !.quantity = qty]
            ELSE items[i]]
    ELSE Append(items, [strain |-> strain, quantity |-> qty])

\* CART[uid]["items"].append({"strain": ..., "quantity": qty})
AppendItem(items, strain, qty) == Append(items, [strain |-> strain, quantity |-> qty])

\* the guard of remove_ and its del CART[uid]["items"][idx]
RemoveGuard(items, idx) == idx < Len(items)
RemoveItem(items, idx) == PyDel(items, idx)

\* mutant: the session is kept
DropSession_kept(c, uid) == c

\* del CART[uid]
DropSession(c, uid) == DelKey(c, uid)

-----------------------------------------------------------------------------
(* What a handler leaves behind.                                           *)

\* uid: who sent the update; data: the callback data up to its number, or the
\* command; arg: that number, if any; msgs: the replies; err: the exception that
\* escaped; total: the total of a summary; at: the hour the update was handled
Replied(uid, data, msgs) ==
    [uid |-> uid, data |-> data, arg |-> <<>>, msgs |-> msgs, err |-> None,
     total |-> <<>>, at |-> now]
Raised(uid, data, msgs, err) ==
    [uid |-> uid, data |-> data, arg |-> <<>>, msgs |-> msgs, err |-> err,
     total |-> <<>>, at |-> now]

\* history: the run so far is the scenario's first scen events, or it is not (-1)
ScenNext(match) == IF scen >= 0 /\ match THEN scen + 1 ELSE -1

\* history: the accepted quantities, after the cart went from old to new by a removal
Forget(acc, old, new) ==
    IF Len(new) + 1 = Len(old) /\ Len(acc) = Len(old)
       /\ \E p \in 1..Len(old) : new = SubSeq(old, 1, p - 1) \o SubSeq(old, p + 1, Len(old))
    THEN LET p == CHOOSE q \in 1..Len(old) :
                      new = SubSeq(old, 1, q - 1) \o SubSeq(old, q + 1, Len(old))
         IN  SubSeq(acc, 1, p - 1) \o SubSeq(acc, p + 1, Len(acc))
    ELSE acc

\* history: the summary totals after a step; a summary counts until the session it
\* was made for is dropped or replaced
ShownNext ==
    [u \in Users |->
        IF out'.uid = u /\ out'.total # <<>> THEN out'.total
        ELSE IF u \notin DOMAIN CART' \/ (out'.uid = u /\ out'.data = "/start") THEN <<>>
        ELSE shown[u]]

-----------------------------------------------------------------------------
(* Commands (handlers.py:123-159).                                         *)

\* mutant: /start rebinds CART to a dict holding the new session alone
start_command_all(uid) ==
    /\ CART' = SetKey(<<>>, uid, Fresh)
    /\ out' = Replied(uid, "/start", <<MSG_WELCOME>>)
    /\ accepted' = [u \in Users |-> <<>>]
    /\ UNCHANGED harness
    /\ scen' = ScenNext(uid = 1 /\ scen = 0)
    /\ UNCHANGED <<orders, lastrowid, admin_msgs, now>>
    /\ shown' = ShownNext

\* /start: a new session replaces whatever the user had
start_command(uid) ==
    /\ CART' = SetKey(CART, uid, Fresh)
    /\ out' = Replied(uid, "/start", <<MSG_WELCOME>>)
    /\ accepted' = [accepted EXCEPT ![uid] = <<>>]
    /\ UNCHANGED harness
    /\ scen' = ScenNext(uid = 1 /\ scen = 0)
    /\ UNCHANGED <<orders, lastrowid, admin_msgs, now>>
    /\ shown' = ShownNext

\* list_orders (bot.py registers no command for it; it is the only place that
\* shows the complete_/delete_ buttons)
list_orders(uid) ==
    /\ out' = IF ~IsOperator(uid)
              THEN Replied(uid, "/orders", <<MSG_UNAUTHORIZED>>)
              ELSE IF PendingOrders(orders) = <<>>
              THEN Replied(uid, "/orders", <<MSG_NO_PENDING>>)
              ELSE Replied(uid, "/orders",
                           [i \in 1..Len(PendingOrders(orders)) |-> MSG_ORDER_CARD])
    /\ UNCHANGED harness
    /\ scen' = ScenNext(FALSE)
    /\ UNCHANGED <<CART, orders, lastrowid, admin_msgs, now, accepted>>
    /\ shown' = ShownNext

-----------------------------------------------------------------------------
(* handle_callback_query (handlers.py:276-434), one action per branch.     *)

\* complete_<id>
cb_complete(uid, order_id) ==
    /\ CART' = Ensure(uid)
    /\ orders' = update_order_status(orders, order_id, "completed")
    /\ out' = [Replied(uid, "complete_", <<MSG_COMPLETED>>) EXCEPT !.arg = <<order_id>>]
    /\ UNCHANGED harness
    /\ scen' = ScenNext(FALSE)
    /\ UNCHANGED <<lastrowid, admin_msgs, now, accepted>>
    /\ shown' = ShownNext

\* delete_<id>
cb_delete(uid, order_id) ==
    /\ CART' = Ensure(uid)
    /\ orders' = delete_order(orders, order_id)
    /\ out' = [Replied(uid, "delete_", <<MSG_DELETED>>) EXCEPT !.arg = <<order_id>>]
    /\ UNCHANGED harness
    /\ scen' = ScenNext(FALSE)
    /\ UNCHANGED <<lastrowid, admin_msgs, now, accepted>>
    /\ shown' = ShownNext

\* mutant: showing a strain also asks for its quantity
send_strain_details_stage(c, uid, name) ==
    IF ~\E i \in 1..Len(STRAINS) : STRAINS[i] = name
    THEN [cart |-> c, msgs |-> <<MSG_STRAIN_NOT_FOUND>>]
    ELSE [cart |-> [c EXCEPT ![uid] = SetKey(SetKey(c[uid], "last_strain", name),
                                             "state", "await_qty")],
          msgs |-> <<MSG_STRAIN_DETAILS>>]

\* send_strain_details (handlers.py:175-210): the session after it, and its reply
send_strain_details(c, uid, name) ==
    IF ~\E i \in 1..Len(STRAINS) : STRAINS[i] = name
    THEN [cart |-> c, msgs |-> <<MSG_STRAIN_NOT_FOUND>>]
    ELSE [cart |-> [c EXCEPT ![uid] = SetKey(c[uid], "last_strain", name)],
          msgs |-> <<MSG_STRAIN_DETAILS>>]

\* strain_<idx>
cb_strain(uid, idx) ==
    LET c == Ensure(uid)
        p == PyPos(Len(STRAINS), idx)
        r == send_strain_details(c, uid, STRAINS[p])
    IN  /\ IF p = 0
           THEN /\ CART' = c
                /\ out' = [Raised(uid, "strain_", <<>>, "IndexError")
                              EXCEPT !.arg = <<idx>>]
           ELSE /\ CART' = r.cart
                /\ out' = [Replied(uid, "strain_", r.msgs) EXCEPT !.arg = <<idx>>]
        /\ UNCHANGED harness
        /\ scen' = ScenNext(uid = 1 /\ scen = 2 /\ idx = 20)
        /\ UNCHANGED <<orders, lastrowid, admin_msgs, now, accepted>>
        /\ shown' = ShownNext

\* qty_<n>
cb_qty(uid, qty) ==
    LET c == Ensure(uid)
        s == c[uid]
    IN  /\ IF "last_strain" \notin DOMAIN s
           THEN /\ CART' = c
                /\ out' = Replied(uid, "qty_", <<MSG_NO_STRAIN>>)
                /\ accepted' = accepted
           ELSE /\ CART' = [c EXCEPT ![uid] =
                      SetKey(DelKey(SetKey(s, "items",
                                           AppendItem(s["items"], s["last_strain"], qty)),
                                    "last_strain"),
                             "state", None)]
                /\ out' = Replied(uid, "qty_", <<MSG_ADDED>>)
                /\ accepted' = [accepted EXCEPT ![uid] = Append(@, qty)]
        /\ UNCHANGED harness
        /\ scen' = ScenNext(uid = 1 /\ scen = 4 /\ qty = 2)
        /\ UNCHANGED <<orders, lastrowid, admin_msgs, now>>
        /\ shown' = ShownNext

\* view_strains
cb_view_strains(uid) ==
    /\ CART' = Ensure(uid)
    /\ out' = Replied(uid, "view_strains", <<MSG_SELECT_STRAIN>>)
    /\ UNCHANGED harness
    /\ scen' = ScenNext(uid = 1 /\ scen = 1)
    /\ UNCHANGED <<orders, lastrowid, admin_msgs, now, accepted>>
    /\ shown' = ShownNext

\* faq
cb_faq(uid) ==
    /\ CART' = Ensure(uid)
    /\ out' = Replied(uid, "faq", <<MSG_FAQ>>)
    /\ UNCHANGED harness
    /\ scen' = ScenNext(FALSE)
    /\ UNCHANGED <<orders, lastrowid, admin_msgs, now, accepted>>
    /\ shown' = ShownNext

\* the reply of view_cart for a cart
ViewCartMsgs(items) == IF items = <<>> THEN <<MSG_CART_EMPTY>> ELSE <<MSG_CART>>

\* view_cart
cb_view_cart(uid) ==
    /\ CART' = Ensure(uid)
    /\ out' = Replied(uid, "view_cart", ViewCartMsgs(Ensure(uid)[uid]["items"]))
    /\ UNCHANGED harness
    /\ scen' = ScenNext(FALSE)
    /\ UNCHANGED <<orders, lastrowid, admin_msgs, now, accepted>>
    /\ shown' = ShownNext

\* remove_<idx>, with the view_cart it ends in
cb_remove(uid, idx) ==
    LET c == Ensure(uid)
        items == c[uid]["items"]
        after == IF RemoveGuard(items, idx) THEN RemoveItem(items, idx) ELSE items
    IN  /\ IF RemoveGuard(items, idx) /\ PyPos(Len(items), idx) = 0
           THEN /\ CART' = c
                /\ out' = [Raised(uid, "remove_", <<>>, "IndexError")
                              EXCEPT !.arg = <<idx>>]
                /\ accepted' = accepted
           ELSE /\ CART' = [c EXCEPT ![uid] = SetKey(c[uid], "items", after)]
                /\ out' = [Replied(uid, "remove_", <<MSG_REMOVED>> \o ViewCartMsgs(after))
                              EXCEPT !.arg = <<idx>>]
                /\ accepted' = [accepted EXCEPT ![uid] = Forget(@, items, after)]
        /\ UNCHANGED harness
        /\ scen' = ScenNext(FALSE)
        /\ UNCHANGED <<orders, lastrowid, admin_msgs, now>>
        /\ shown' = ShownNext

\* mutant: the payment menu whatever the cart holds
cb_finalize_order_menu(uid) ==
    /\ CART' = Ensure(uid)
    /\ out' = Replied(uid, "finalize_order", <<MSG_SELECT_PAYMENT>>)
    /\ UNCHANGED harness
    /\ scen' = ScenNext(uid = 1 /\ scen = 5)
    /\ UNCHANGED <<orders, lastrowid, admin_msgs, now, accepted>>
    /\ shown' = ShownNext

\* finalize_order
cb_finalize_order(uid) ==
    /\ CART' = Ensure(uid)
    /\ out' = IF Ensure(uid)[uid]["items"] = <<>>
              THEN Replied(uid, "finalize_order", <<MSG_EMPTY_FINALIZE>>)
              ELSE Replied(uid, "finalize_order", <<MSG_SELECT_PAYMENT>>)
    /\ UNCHANGED harness
    /\ scen' = ScenNext(uid = 1 /\ scen = 5)
    /\ UNCHANGED <<orders, lastrowid, admin_msgs, now, accepted>>
    /\ shown' = ShownNext

\* payment_method after payment_<method> (handlers.py:375)
PaymentChoice(method) == IF method = "paypal" THEN PAYPAL ELSE MAIL_IN

\* payment_<method>: method is data.split("_")[1]
cb_payment(uid, method) ==
    LET c == Ensure(uid)
    IN  /\ IF method = "crypto"
           THEN /\ CART' = c
                /\ out' = Replied(uid, "payment_", <<MSG_SELECT_CRYPTO>>)
           ELSE /\ CART' = [c EXCEPT ![uid] =
                      SetKey(c[uid], "payment_method", PaymentChoice(method))]
                /\ out' = Replied(uid, "payment_", <<MSG_COUNTRY>>)
        /\ UNCHANGED harness
        /\ scen' = ScenNext(uid = 1 /\ scen = 6 /\ method = "paypal")
        /\ UNCHANGED <<orders, lastrowid, admin_msgs, now, accepted>>
        /\ shown' = ShownNext

\* f"Crypto - {coin.upper()}" (handlers.py:269, 383-384)
CryptoMethod(coin) == CRYPTO_PREFIX \o Upper(coin)

\* crypto_<coin>
cb_crypto(uid, coin) ==
    LET c == Ensure(uid)
    IN  /\ IF coin = <<"o","t","h","e","r">>
           THEN /\ CART' = [c EXCEPT ![uid] = SetKey(c[uid], "state", "await_crypto_other")]
                /\ out' = Replied(uid, "crypto_", <<MSG_ENTER_CRYPTO>>)
           ELSE /\ CART' = [c EXCEPT ![uid] =
                      SetKey(c[uid], "payment_method", CryptoMethod(coin))]
                /\ out' = Replied(uid, "crypto_", <<MSG_COUNTRY>>)
        /\ UNCHANGED harness
        /\ scen' = ScenNext(FALSE)
        /\ UNCHANGED <<orders, lastrowid, admin_msgs, now, accepted>>
        /\ shown' = ShownNext

\* country_<code>
cb_country(uid, code) ==
    LET c == Ensure(uid)
        country == IF code = "usa" THEN USA ELSE INTERNATIONAL
    IN  /\ CART' = [c EXCEPT ![uid] =
               SetKey(SetKey(c[uid], "country", country), "state", "await_ig")]
        /\ out' = Replied(uid, "country_", <<MSG_ENTER_IG>>)
        /\ UNCHANGED harness
        /\ scen' = ScenNext(uid = 1 /\ scen = 7 /\ code = "usa")
        /\ UNCHANGED <<orders, lastrowid, admin_msgs, now, accepted>>
        /\ shown' = ShownNext

\* show_confirmation_summary (handlers.py:225-247): the session after it and what the
\* handler leaves behind.  The reply goes through update.callback_query, which a
\* text update does not have.
show_confirmation_summary(c, uid, data, ig_handle, has_callback_query) ==
    LET s == SetKey(SetKey(c[uid], "ig_handle", ig_handle), "state", None)
        total == calculate_price(s["items"], s["country"], s["payment_method"])
    IN  [cart |-> [c EXCEPT ![uid] = s],
         out |-> IF "country" \notin DOMAIN s \/ "payment_method" \notin DOMAIN s
                 THEN Raised(uid, data, <<>>, "KeyError")
                 ELSE IF ~has_callback_query
                 THEN Raised(uid, data, <<>>, "AttributeError")
                 ELSE [Replied(uid, data, <<MSG_SUMMARY>>) EXCEPT !.total = <<total>>]]

\* skip_ig
cb_skip_ig(uid) ==
    LET r == show_confirmation_summary(Ensure(uid), uid, "skip_ig", NOT_AVAILABLE, TRUE)
    IN  /\ CART' = r.cart
        /\ out' = r.out
        /\ UNCHANGED harness
        /\ scen' = ScenNext(FALSE)
        /\ UNCHANGED <<orders, lastrowid, admin_msgs, now, accepted>>
        /\ shown' = ShownNext

\* mutant: the success reply whatever send_message did
ConfirmReply_success(delivered) == <<MSG_CONFIRMED>>

\* the reply of confirm_order (handlers.py:422, 426)
ConfirmReply(delivered) == IF delivered THEN <<MSG_CONFIRMED>> ELSE <<MSG_SOFT_FAILURE>>

\* the session has every key confirm_order reads (handlers.py:400-402)
ConfirmReady(s) == {"ig_handle", "payment_method", "country"} \subseteq DOMAIN s

\* confirm_order; delivered: whether send_message to the operator succeeded
cb_confirm_order(uid, delivered) ==
    LET c == Ensure(uid)
        s == c[uid]
        total == calculate_price(s["items"], s["country"], s["payment_method"])
    IN  /\ IF ConfirmReady(s)
           THEN /\ orders' = save_order_to_db(orders, lastrowid, now, Uname(uid),
                                 s["ig_handle"], s["payment_method"], s["country"],
                                 total, s["items"])
                /\ lastrowid' = lastrowid + 1
                /\ admin_msgs' = Append(admin_msgs,
                                        [order_id |-> lastrowid + 1, delivered |-> delivered])
                /\ out' = Replied(uid, "confirm_order", ConfirmReply(delivered))
                /\ CART' = DropSession(c, uid)
                /\ accepted' = [accepted EXCEPT ![uid] = <<>>]
           ELSE /\ CART' = c
                /\ out' = Raised(uid, "confirm_order", <<>>, "KeyError")
                /\ UNCHANGED <<orders, lastrowid, admin_msgs, accepted>>
        /\ UNCHANGED harness
        /\ scen' = ScenNext(uid = 1 /\ scen = 9)
        /\ UNCHANGED now
        /\ shown' = ShownNext

\* mutant: the cart is emptied and the session kept
cb_cancel_order_items(uid) ==
    /\ CART' = [Ensure(uid) EXCEPT ![uid] = SetKey(@, "items", <<>>)]
    /\ out' = Replied(uid, "cancel_order", <<MSG_CANCELED>>)
    /\ accepted' = [accepted EXCEPT ![uid] = <<>>]
    /\ UNCHANGED harness
    /\ scen' = ScenNext(FALSE)
    /\ UNCHANGED <<orders, lastrowid, admin_msgs, now>>
    /\ shown' = ShownNext

\* cancel_order
cb_cancel_order(uid) ==
    /\ CART' = DropSession(Ensure(uid), uid)
    /\ out' = Replied(uid, "cancel_order", <<MSG_CANCELED>>)
    /\ accepted' = [accepted EXCEPT ![uid] = <<>>]
    /\ UNCHANGED harness
    /\ scen' = ScenNext(FALSE)
    /\ UNCHANGED <<orders, lastrowid, admin_msgs, now>>
    /\ shown' = ShownNext

\* add_quantity -> handle_add_quantity (handlers.py:212-223)
cb_add_quantity(uid) ==
    LET c == Ensure(uid)
    IN  /\ CART' = [c EXCEPT ![uid] = SetKey(c[uid], "state", "await_qty")]
        /\ out' = Replied(uid, "add_quantity", <<MSG_HOW_MANY>>)
        /\ UNCHANGED harness
        /\ scen' = ScenNext(uid = 1 /\ scen = 3)
        /\ UNCHANGED <<orders, lastrowid, admin_msgs, now, accepted>>
        /\ shown' = ShownNext

\* noop
cb_noop(uid) ==
    /\ CART' = Ensure(uid)
    /\ out' = Replied(uid, "noop", <<MSG_NO_STRAINS>>)
    /\ UNCHANGED harness
    /\ scen' = ScenNext(FALSE)
    /\ UNCHANGED <<orders, lastrowid, admin_msgs, now, accepted>>
    /\ shown' = ShownNext

-----------------------------------------------------------------------------
(* handle_text (handlers.py:249-274).                                      *)

\* some key of the keyword table is in text.lower()
HasKeyword(text) == \E i \in 1..Len(KEYWORDS) : Contains(Lower(text), KEYWORDS[i])

\* A keyword goes to handle_callback_query_from_text, which raises NameError at its
\* last line (it names a context it does not have).  The two state branches reply
\* through update.callback_query, which a text update does not have.
handle_text(uid, message_text) ==
    LET text == Strip(message_text)
        c == Ensure(uid)
        state == c[uid]["state"]
        r == show_confirmation_summary(c, uid, "text", text, FALSE)
    IN  /\ IF HasKeyword(text)
           THEN /\ CART' = c
                /\ out' = [Raised(uid, "text", <<>>, "NameError")
                              EXCEPT !.arg = <<message_text>>]
           ELSE IF state = "await_ig"
           THEN /\ CART' = r.cart
                /\ out' = [r.out EXCEPT !.arg = <<message_text>>]
           ELSE IF state = "await_crypto_other"
           THEN /\ CART' = [c EXCEPT ![uid] =
                      SetKey(SetKey(c[uid], "payment_method", CryptoMethod(text)),
                             "state", None)]
                /\ out' = [Raised(uid, "text", <<>>, "AttributeError")
                              EXCEPT !.arg = <<message_text>>]
           ELSE /\ CART' = c
                /\ out' = [Replied(uid, "text", <<MSG_USE_BUTTONS>>)
                              EXCEPT !.arg = <<message_text>>]
        /\ UNCHANGED harness
        /\ scen' = ScenNext(uid = 1 /\ scen = 8
                            /\ message_text = <<"@","b","u","y","e","r","1">>)
        /\ UNCHANGED <<orders, lastrowid, admin_msgs, now, accepted>>
        /\ shown' = ShownNext

\* an hour passes
Tick ==
    /\ now < MaxTime
    /\ now' = now + 1
    /\ UNCHANGED <<CART, orders, lastrowid, admin_msgs, out, accepted, scen>>
    /\ UNCHANGED harness
    /\ shown' = ShownNext

\* an hour passes with no update, in a run of at most limit hours
Elapse(limit) ==
    /\ now < limit
    /\ now' = now + 1
    /\ UNCHANGED <<CART, orders, lastrowid, admin_msgs, out, accepted, scen>>
    /\ UNCHANGED harness
    /\ shown' = ShownNext

\* The process stops and starts again: the module is loaded anew, so CART is the
\* empty dict of handlers.py:50; the rows of orders and its row counter are in the
\* database file (handlers.py:17, 24-33: CREATE TABLE IF NOT EXISTS keeps them).
Restart ==
    /\ CART' = <<>>
    /\ out' = Replied(0, "restart", <<>>)
    /\ accepted' = [u \in Users |-> <<>>]
    /\ scen' = ScenNext(FALSE)
    /\ UNCHANGED <<orders, lastrowid, admin_msgs, now>>
    /\ UNCHANGED harness
    /\ shown' = ShownNext

-----------------------------------------------------------------------------
(* The events the model feeds the handlers.                                *)

\* the index of the button "Sour Tropicookies" in the strain menu
SOUR == (CHOOSE i \in 1..Len(STRAINS) : STRAINS[i] = "Sour Tropicookies") - 1

BUYER1 == <<"@","b","u","y","e","r","1">>

\* what the customer of the payment specification types: a coin, the word paypal,
\* a text with blanks around it, a text with a keyword of handle_text in it
PayTexts == {<<"L","T","C">>, <<"p","a","y","p","a","l">>, <<" ","x","m","r"," ">>,
             <<"m","y"," ","m","e","n","u">>}

\* the cart has room for the line a qty_ would append (a bound of the model: the
\* code's cart is unbounded); a qty_ that is turned down needs none
QtyRoom(uid, cap) ==
    \/ "last_strain" \notin DOMAIN Ensure(uid)[uid]
    \/ Len(Ensure(uid)[uid]["items"]) < cap

\* the table has room for the row a confirm_order would insert (a bound of the
\* model: the code's table is unbounded); a confirm_order that raises needs none
ConfirmRoom(uid, cap) ==
    lastrowid < cap \/ ~ConfirmReady(Ensure(uid)[uid])

Init ==
    /\ CART = <<>>
    /\ orders = <<>>
    /\ lastrowid = 0
    /\ admin_msgs = <<>>
    /\ now = 0
    /\ out = Replied(0, "", <<>>)
    /\ accepted = [u \in Users |-> <<>>]
    /\ shown = [u \in Users |-> <<>>]
    /\ scen = 0
    /\ pItems = <<>> /\ pCountry = USA /\ pMethod = PAYPAL /\ pTotal = <<>>

\* The checkout of one customer, from /start to confirm_order.
Next ==
    \/ start_command(1)
    \/ cb_view_strains(1)
    \/ cb_strain(1, SOUR)
    \/ cb_add_quantity(1)
    \/ QtyRoom(1, MaxLines) /\ cb_qty(1, 2)
    \/ cb_remove(1, 0)
    \/ cb_finalize_order(1)
    \/ cb_payment(1, "paypal")
    \/ \E code \in {"usa", "intl"} : cb_country(1, code)
    \/ handle_text(1, BUYER1)
    \/ \E delivered \in BOOLEAN :
          ConfirmRoom(1, MaxOrders) /\ cb_confirm_order(1, delivered)
    \/ cb_cancel_order(1)

Spec == Init /\ [][Next]_vars

\* The cart of one customer: every quantity and index a callback can carry.
NextCart ==
    \/ start_command(1)
    \/ \E idx \in {0 - 1, SOUR, SOUR + 1, Len(STRAINS)} : cb_strain(1, idx)
    \/ cb_add_quantity(1)
    \/ \E qty \in (0 - 1)..MaxQty : QtyRoom(1, MaxCart) /\ cb_qty(1, qty)
    \/ cb_view_cart(1)
    \/ \E idx \in (0 - 1)..MaxCart : cb_remove(1, idx)
    \/ cb_finalize_order(1)
    \/ cb_cancel_order(1)

SpecCart == Init /\ [][NextCart]_vars

\* The orders table: a customer who orders again and again, the operator's
\* commands from either account, and the clock.
NextLedger ==
    \/ cb_strain(1, SOUR)
    \/ QtyRoom(1, MaxLines) /\ cb_qty(1, 2)
    \/ cb_payment(1, "paypal")
    \/ cb_country(1, "usa")
    \/ cb_skip_ig(1)
    \/ ConfirmRoom(1, MaxLedger) /\ cb_confirm_order(1, TRUE)
    \/ \E uid \in Users :
          \/ list_orders(uid)
          \/ \E id \in 1..MaxLedger : cb_complete(uid, id)
          \/ \E id \in 1..MaxLedger : cb_delete(uid, id)
    \/ Tick

SpecLedger == Init /\ [][NextLedger]_vars

\* Payment, region and contact: every button of the three menus and what a customer
\* may type, with no order placed.
NextPay ==
    \/ cb_strain(1, SOUR)
    \/ QtyRoom(1, MaxLines) /\ cb_qty(1, 2)
    \/ cb_finalize_order(1)
    \/ \E m \in {"crypto", "paypal", "mail"} : cb_payment(1, m)
    \/ \E coin \in {<<"b","t","c">>, <<"o","t","h","e","r">>} : cb_crypto(1, coin)
    \/ \E code \in {"usa", "intl"} : cb_country(1, code)
    \/ \E text \in PayTexts : handle_text(1, text)
    \/ cb_skip_ig(1)
    \/ cb_faq(1)
    \/ cb_noop(1)

SpecPay == Init /\ [][NextPay]_vars

\* The rows of the orders table: a customer who orders and goes on editing the cart,
\* and the operator who completes and deletes orders, present or not.
NextOrders ==
    \/ cb_strain(1, SOUR)
    \/ QtyRoom(1, MaxLines) /\ cb_qty(1, 2)
    \/ cb_remove(1, 0)
    \/ cb_payment(1, "paypal")
    \/ cb_country(1, "usa")
    \/ cb_skip_ig(1)
    \/ ConfirmRoom(1, MaxLedger) /\ cb_confirm_order(1, TRUE)
    \/ \E id \in 1..MaxLedger : cb_complete(2, id)
    \/ \E id \in 1..MaxLedger : cb_delete(2, id)

SpecOrders == Init /\ [][NextOrders]_vars

\* A customer who fills a cart and then leaves it: all that runs besides the
\* handlers is the polling loop, bot.py registers no job.
NextIdle ==
    \/ start_command(1)
    \/ cb_strain(1, SOUR)
    \/ cb_add_quantity(1)
    \/ QtyRoom(1, MaxLines) /\ cb_qty(1, 2)
    \/ cb_view_cart(1)
    \/ Elapse(MaxIdle)

SpecIdle == Init /\ [][NextIdle]_vars

\* Two users at once, their updates handled one at a time in any order: user 1
\* goes through the whole checkout while user 2 fills, edits and drops a cart.
NextTwo ==
    \/ \E uid \in Users :
          \/ start_command(uid)
          \/ cb_strain(uid, SOUR)
          \/ cb_add_quantity(uid)
          \/ QtyRoom(uid, MaxLines) /\ cb_qty(uid, 2)
          \/ cb_remove(uid, 0)
          \/ cb_finalize_order(uid)
          \/ cb_cancel_order(uid)
    \/ cb_payment(1, "paypal")
    \/ cb_country(1, "usa")
    \/ cb_skip_ig(1)
    \/ ConfirmRoom(1, MaxOrders) /\ cb_confirm_order(1, TRUE)

SpecTwo == Init /\ [][NextTwo]_vars

\* A checkout the process may be restarted in the middle of.
NextRestart ==
    \/ start_command(1)
    \/ cb_strain(1, SOUR)
    \/ cb_add_quantity(1)
    \/ QtyRoom(1, MaxLines) /\ cb_qty(1, 2)
    \/ cb_payment(1, "paypal")
    \/ cb_country(1, "usa")
    \/ cb_skip_ig(1)
    \/ ConfirmRoom(1, MaxOrders) /\ cb_confirm_order(1, TRUE)
    \/ Restart

SpecRestart == Init /\ [][NextRestart]_vars

-----------------------------------------------------------------------------
(* The pricing harness: calculate_price on the arguments the checkout can  *)
(* hand it.                                                                *)

\* the payment methods a session can hold: the two payment_ buttons, the crypto_
\* buttons, and a coin typed after crypto_other (handlers.py:251, 269)
ReachableMethods ==
    {PaymentChoice(m) : m \in {"paypal", "mail"}}
    \cup {CryptoMethod(coin) : coin \in {<<"b","t","c">>, <<"u","s","d","t">>}}
    \cup {CryptoMethod(Strip(text)) :
            text \in {t \in PayTexts : ~HasKeyword(Strip(t))}}

\* the carts of at most n lines
RECURSIVE CartsUpTo(_)
CartsUpTo(n) ==
    IF n = 0 THEN {<<>>}
    ELSE CartsUpTo(n - 1) \cup
         {AppendItem(c, "Sour Tropicookies", q) :
            c \in {d \in CartsUpTo(n - 1) : Len(d) = n - 1}, q \in 0..MaxPriceQty}

InitPrice ==
    /\ CART = <<>> /\ orders = <<>> /\ lastrowid = 0 /\ admin_msgs = <<>> /\ now = 0
    /\ out = Replied(0, "", <<>>)
    /\ accepted = [u \in Users |-> <<>>]
    /\ shown = [u \in Users |-> <<>>]
    /\ scen = 0
    /\ pItems \in CartsUpTo(MaxPriceLines)
    /\ pCountry \in {USA, INTERNATIONAL}
    /\ pMethod \in ReachableMethods
    /\ pTotal = <<>>

ApplyPrice ==
    /\ pTotal = <<>>
    /\ pTotal' = <<calculate_price(pItems, pCountry, pMethod)>>
    /\ UNCHANGED <<pItems, pCountry, pMethod>>
    /\ UNCHANGED app

NextPrice == ApplyPrice

SpecPrice == InitPrice /\ [][NextPrice]_vars

-----------------------------------------------------------------------------
(* The claims.                                                             *)

\* a session with nothing in it: no cart line, no selection, no checkout field
Cleared(c, uid) ==
    \/ uid \notin DOMAIN c
    \/ /\ c[uid]["items"] = <<>>
       /\ DOMAIN c[uid] \cap {"last_strain", "payment_method", "country", "ig_handle"} = {}

\* the quantity in uid's cart
CartQty(uid) == IF uid \in DOMAIN CART THEN SumQty(CART[uid]["items"]) ELSE 0

\* C1: the ledger never holds two pending orders of one buyer reference created
\* less than 24 hours apart (a second confirm within the window inserts no row).
C1_NoDuplicatePending ==
    \A i, j \in 1..Len(orders) :
        (i < j /\ orders[i].telegram_user = orders[j].telegram_user
               /\ orders[i].status = "pending" /\ orders[j].status = "pending")
        => orders[j].timestamp - orders[i].timestamp >= 24

\* a step that deletes a row or turns an order's status into completed
AdminChange ==
    \/ \E i \in 1..Len(orders) : \A j \in 1..Len(orders') : orders'[j].id # orders[i].id
    \/ \E i \in 1..Len(orders) : \E j \in 1..Len(orders') :
          /\ orders'[j].id = orders[i].id
          /\ orders[i].status # "completed" /\ orders'[j].status = "completed"

\* C2: an order is completed or deleted only by an event of the operator (the same
\* event from any other user leaves the ledger unchanged).
C2_AdminGated ==
    [][ AdminChange => IsOperator(out'.uid) ]_vars

\* C3: a confirm_order that is not rejected inserts exactly one row, pending, with the
\* session's line items, payment method, region and contact, makes exactly one
\* notification attempt for that row, and leaves the user's session cleared.
C3_SuccessfulConfirm ==
    [][ (out'.data = "confirm_order" /\ out'.err = None) =>
          LET uid == out'.uid
              row == orders'[Len(orders')]
          IN  /\ uid \in DOMAIN CART
              /\ Len(orders') = Len(orders) + 1
              /\ SubSeq(orders', 1, Len(orders)) = orders
              /\ row.status = "pending"
              /\ row.items = CART[uid]["items"]
              /\ row.payment = CART[uid]["payment_method"]
              /\ row.country = CART[uid]["country"]
              /\ row.ig_handle = CART[uid]["ig_handle"]
              /\ Len(admin_msgs') = Len(admin_msgs) + 1
              /\ SubSeq(admin_msgs', 1, Len(admin_msgs)) = admin_msgs
              /\ admin_msgs'[Len(admin_msgs')].order_id = row.id
              /\ Cleared(CART', uid) ]_vars

C3_Witness ==
    /\ out.data = "confirm_order" /\ out.err = None
    /\ Len(orders) = 1 /\ orders[1].items # <<>> /\ orders[1].ig_handle = BUYER1
    /\ Len(admin_msgs) = 1
    /\ Cleared(CART, 1)

\* C4: when the notification of a confirm_order fails, the row it inserted is in the
\* ledger with status pending, the user gets the soft-failure message, and the session
\* is cleared as after a delivered notification.
C4_NotificationFailureKeepsOrder ==
    [][ (Len(admin_msgs') = Len(admin_msgs) + 1
         /\ ~admin_msgs'[Len(admin_msgs')].delivered) =>
          /\ Len(orders') = Len(orders) + 1
          /\ orders'[Len(orders')].id = admin_msgs'[Len(admin_msgs')].order_id
          /\ orders'[Len(orders')].status = "pending"
          /\ out'.data = "confirm_order" /\ out'.err = None
          /\ out'.msgs = <<MSG_SOFT_FAILURE>>
          /\ Cleared(CART', out'.uid) ]_vars

C4_Witness ==
    /\ Len(admin_msgs) = 1 /\ ~admin_msgs[1].delivered
    /\ Len(orders) = 1 /\ orders[1].status = "pending" /\ orders[1].items # <<>>
    /\ out.msgs = <<MSG_SOFT_FAILURE>>
    /\ Cleared(CART, 1)

\* C5: total = subtotal + shipping + surcharge, with subtotal = Q * unit, unit = 60
\* if Q >= 3 else 80, shipping = 40 for USA and 100 for International (in cents; the
\* surcharge is nothing or 5 cents per dollar); unit is 80 at Q = 2 and 60 at Q = 3.
C5_Pricing ==
    pTotal # <<>> =>
        LET Q == SumQty(pItems)
            unit == IF Q >= 3 THEN 60 ELSE 80
            shipping == IF pCountry = USA THEN 40 ELSE 100
        IN  /\ pTotal[1] - 100 * (Q * unit + shipping) \in {0, 5 * (Q * unit + shipping)}
            /\ Q = 2 => pTotal[1] - 100 * shipping \in {100 * 160, 105 * 160 + 5 * shipping}
            /\ Q = 3 => /\ pTotal[1] - 100 * shipping \in {100 * 180, 105 * 180 + 5 * shipping}
                        /\ calculate_subtotal(pItems) < 3 * 80

C5_Witness ==
    /\ pTotal # <<>> /\ SumQty(pItems) = 3 /\ Len(pItems) = 2
    /\ pCountry = INTERNATIONAL /\ pMethod = PAYPAL

\* C6: the total carries the 5% surcharge when the payment method is PayPal, and is
\* subtotal + shipping for every other payment method the checkout can set (here: the
\* total of the confirmation summary the session's fields produce).
C6_SurchargeOnlyPayPal ==
    out.total # <<>> =>
        LET s == CART[out.uid]
            base == calculate_subtotal(s["items"])
                    + (IF s["country"] = USA THEN 40 ELSE 100)
        IN  IF s["payment_method"] = PAYPAL
            THEN out.total[1] = 105 * base
            ELSE out.total[1] = 100 * base

\* C7: after the scenario (/start, view_strains, Sour Tropicookies, add_quantity, 2,
\* finalize_order, PayPal, USA, "@buyer1", confirm_order) the ledger holds exactly one
\* order, of quantity 2, total 210.00, pending, and the user's session is cleared.
C7_Scenario ==
    scen = 10 =>
        /\ Len(orders) = 1
        /\ SumQty(orders[1].items) = 2
        /\ orders[1].items = <<[strain |-> "Sour Tropicookies", quantity |-> 2]>>
        /\ orders[1].total = 21000
        /\ orders[1].status = "pending"
        /\ Cleared(CART, 1)

C7_Witness == scen = 10 /\ orders # <<>> /\ orders[1].ig_handle = BUYER1

\* C8: no two lines of a cart name the same item (a quantity for an item already in
\* the cart is added to its line).
C8_NoDuplicateLines ==
    \A uid \in DOMAIN CART :
        \A i, j \in 1..Len(CART[uid]["items"]) :
            i # j => CART[uid]["items"][i].strain # CART[uid]["items"][j].strain

\* C9: every cart line and every order line item has a positive quantity (a quantity
\* n <= 0 is rejected).
C9_PositiveQuantities ==
    /\ \A uid \in DOMAIN CART :
          \A i \in 1..Len(CART[uid]["items"]) : CART[uid]["items"][i].quantity > 0
    /\ \A k \in 1..Len(orders) :
          \A i \in 1..Len(orders[k].items) : orders[k].items[i].quantity > 0

\* C10: the quantity in the cart is the sum of the accepted quantities whose lines
\* were not removed since the session was fresh.
C10_CartTotal ==
    \A uid \in Users : CartQty(uid) = SumSeq(accepted[uid])

C10_Witness ==
    /\ out.data = "remove_" /\ out.msgs = <<MSG_REMOVED, MSG_CART>>
    /\ Len(accepted[1]) = 1 /\ SumSeq(accepted[1]) = MaxQty
    /\ Len(CART[1]["items"]) = 1

\* the session the handlers work on for uid: the one it has, or the one they create
SessionOf(c, uid) == IF uid \in DOMAIN c THEN c[uid] ELSE Fresh

\* C11: finalize_order on a cart with no line replies with the empty-cart message and
\* no payment menu, and leaves the session (state, cart, payment method, region,
\* contact) as it was.
C11_EmptyFinalize ==
    [][ (out'.data = "finalize_order" /\ SessionOf(CART, out'.uid)["items"] = <<>>) =>
          /\ out'.msgs = <<MSG_EMPTY_FINALIZE>>
          /\ out'.err = None
          /\ SessionOf(CART', out'.uid) = SessionOf(CART, out'.uid)
          /\ \A u \in DOMAIN CART \ {out'.uid} : u \in DOMAIN CART' /\ CART'[u] = CART[u]
      ]_vars

C11_Witness ==
    /\ out.data = "finalize_order" /\ out.msgs = <<MSG_EMPTY_FINALIZE>>
    /\ 1 \in DOMAIN CART /\ CART[1]["items"] = <<>>
    /\ {"payment_method", "country"} \subseteq DOMAIN CART[1]
    /\ CART[1]["state"] = "await_ig"

\* C12: cancel_order, at any stage, discards the user's cart and every checkout field
\* (selection, payment method, region, contact), inserts no order and changes none.
C12_CancelUnconditional ==
    [][ out'.data = "cancel_order" =>
          /\ out'.err = None
          /\ Cleared(CART', out'.uid)
          /\ orders' = orders /\ lastrowid' = lastrowid /\ admin_msgs' = admin_msgs
      ]_vars

C12_Witness ==
    /\ out.data = "cancel_order" /\ out.msgs = <<MSG_CANCELED>>
    /\ Cleared(CART, 1)
    /\ Len(orders) = 1 /\ orders[1].status = "pending"

\* C13: for a user whose session does not exist yet (get-or-create makes it with the
\* age unconfirmed), an event other than /start only re-prompts: it shows no catalog
\* listing or detail, and leaves no selection, cart line or checkout field behind.
C13_AgeGate ==
    [][ (out'.uid \in Users /\ out'.uid \notin DOMAIN CART /\ out'.data # "/start") =>
          /\ out'.msgs = <<MSG_WELCOME>>
          /\ Cleared(CART', out'.uid)
          /\ SessionOf(CART', out'.uid)["state"] = None
      ]_vars

\* C14: a restart of the process leaves every user's session (cart lines, state,
\* selection, payment method, region, contact) as it was, as it leaves the orders.
C14_SessionsDurable ==
    [][ out'.data = "restart" => (CART' = CART /\ orders' = orders) ]_vars

\* two rows that differ in nothing but their status
SameButStatus(a, b) == [a EXCEPT !.status = b.status] = b

\* C15: a row of orders keeps its line items, total, buyer, contact, payment method,
\* region and creation time through every later event; complete_<id> changes the
\* status of the row with that id only, and nothing when no row has it.
C15_OrderImmutable ==
    [][ /\ \A i \in 1..Len(orders) : \A j \in 1..Len(orders') :
              orders'[j].id = orders[i].id => SameButStatus(orders[i], orders'[j])
        /\ out'.data = "complete_" =>
              /\ Len(orders') = Len(orders)
              /\ \A i \in 1..Len(orders) :
                    IF orders[i].id = out'.arg[1]
                    THEN orders'[i] = [orders[i] EXCEPT !.status = "completed"]
                    ELSE orders'[i] = orders[i]
      ]_vars

C15_Witness ==
    /\ out.data = "complete_" /\ out.arg = <<2>>
    /\ Len(orders) = 2
    /\ orders[1].id = 1 /\ orders[1].status = "pending"
    /\ orders[2].id = 2 /\ orders[2].status = "completed"
    /\ 1 \in DOMAIN CART /\ CART[1]["items"] # <<>>

\* C16: a session idle for longer than the threshold of one hour is deleted by the
\* hourly reaper, whatever its stage: no session is still there more than two hours
\* after its user's last update (and none is deleted within the threshold).
C16_IdleSessionReaped ==
    \A uid \in DOMAIN CART : out.uid = uid => now - out.at <= 2

\* the step gives key k of uid's session a value it did not have
Assigned(uid, k) ==
    /\ uid \in DOMAIN CART' /\ k \in DOMAIN CART'[uid]
    /\ k \in DOMAIN SessionOf(CART, uid) => CART'[uid][k] # SessionOf(CART, uid)[k]

\* C17: the checkout fields are set in stage order: payment_method only on a cart
\* with lines and before any region, country only when payment_method is set and
\* before any contact, ig_handle only when country is set.
C17_StageOrder ==
    [][ \A uid \in Users :
          LET s == SessionOf(CART, uid)
          IN  /\ Assigned(uid, "payment_method") =>
                    s["items"] # <<>> /\ "country" \notin DOMAIN s
              /\ Assigned(uid, "country") =>
                    "payment_method" \in DOMAIN s /\ "ig_handle" \notin DOMAIN s
              /\ Assigned(uid, "ig_handle") => "country" \in DOMAIN s
      ]_vars

C19_QuantityOnlyWhenAwaited ==
    [][ out'.data = "qty_" =>
          LET s == SessionOf(CART, out'.uid)
              t == SessionOf(CART', out'.uid)
          IN  /\ s["state"] # "await_qty" =>
                    t["items"] = s["items"] /\ t["state"] = s["state"]
              /\ t["items"] # s["items"] =>
                    "last_strain" \notin DOMAIN t /\ t["state"] = None
      ]_vars

\* C20: remove_<idx> with idx outside 0..len(items)-1 (negative, or any idx on an
\* empty cart) leaves the cart as it is and sends a notice; with idx inside, it
\* removes that line and keeps the others in order.
C20_RemoveIndexBounded ==
    [][ out'.data = "remove_" =>
          LET items == SessionOf(CART, out'.uid)["items"]
              after == SessionOf(CART', out'.uid)["items"]
              idx == out'.arg[1]
          IN  /\ out'.err = None /\ out'.msgs # <<>>
              /\ IF idx \in 0..(Len(items) - 1)
                 THEN after = SubSeq(items, 1, idx) \o SubSeq(items, idx + 2, Len(items))
                 ELSE after = items
      ]_vars

\* C21: strain_<idx> with idx outside 0..len(STRAINS)-1 sends the not-found message,
\* sets no last_strain and leaves the session as it is; with idx inside, it sets
\* last_strain to that strain and leaves state and cart as they are.
C21_SelectItem ==
    [][ out'.data = "strain_" =>
          LET s == SessionOf(CART, out'.uid)
              t == SessionOf(CART', out'.uid)
              idx == out'.arg[1]
          IN  IF idx \in 0..(Len(STRAINS) - 1)
              THEN t = SetKey(s, "last_strain", STRAINS[idx + 1])
              ELSE /\ out'.err = None
                   /\ out'.msgs = <<MSG_STRAIN_NOT_FOUND>>
                   /\ t = s
      ]_vars

\* C22: a text received in state await_ig (payment method and region chosen),
\* whatever it says (a keyword of the menu or FAQ included), is stored as ig_handle
\* and answered with the summary, whose total is calculate_price of the session's
\* cart, region and payment method.
C22_SupplyContact ==
    [][ (/\ out'.data = "text"
         /\ SessionOf(CART, out'.uid)["state"] = "await_ig"
         /\ {"payment_method", "country"} \subseteq DOMAIN SessionOf(CART, out'.uid)) =>
          LET s == SessionOf(CART, out'.uid)
              t == SessionOf(CART', out'.uid)
          IN  /\ "ig_handle" \in DOMAIN t
              /\ t["ig_handle"] = Strip(out'.arg[1])
              /\ t["items"] = s["items"]
              /\ out'.err = None
              /\ out'.msgs = <<MSG_SUMMARY>>
              /\ out'.total = <<calculate_price(s["items"], s["country"],
                                                s["payment_method"])>>
      ]_vars

\* C23: every row of orders has at least one line item.
C23_NoEmptyOrder ==
    \A k \in 1..Len(orders) : orders[k].items # <<>>

\* C24: the total of an inserted order is the total of the summary its user was
\* sent last before the confirm_order (cart, region and payment method do not change
\* in between).
C24_SummaryTotal ==
    [][ (out'.data = "confirm_order" /\ out'.err = None /\ shown[out'.uid] # <<>>) =>
          orders'[Len(orders')].total = shown[out'.uid][1]
      ]_vars

\* C25: a confirm_order that inserted an order leaves its user without a session, and
\* a confirm_order on a session with no ig_handle (as is the one created for a further
\* confirm_order) raises KeyError before the insert: the ledger stays as it was.
C25_RepeatedConfirm ==
    [][ /\ (out.data = "confirm_order" /\ out.err = None) => out.uid \notin DOMAIN CART
        /\ (/\ out'.data = "confirm_order"
            /\ "ig_handle" \notin DOMAIN SessionOf(CART, out'.uid)) =>
              /\ out'.err = "KeyError"
              /\ orders' = orders /\ lastrowid' = lastrowid /\ admin_msgs' = admin_msgs
              /\ CART' = SetKey(CART, out'.uid, SessionOf(CART, out'.uid))
      ]_vars

C25_Witness ==
    /\ out.data = "confirm_order" /\ out.err = "KeyError" /\ out.uid = 1
    /\ 1 \in DOMAIN CART /\ CART[1] = Fresh
    /\ Len(orders) = 1 /\ lastrowid = 1 /\ Len(admin_msgs) = 1
    /\ orders[1].items # <<>>

\* C26: handling an event of one user leaves the session of every other user as it
\* was, present or absent, in whatever order the users' events come.
C26_SessionIsolation ==
    [][ out'.uid \in Users =>
          \A u \in Users \ {out'.uid} :
              /\ u \in DOMAIN CART' <=> u \in DOMAIN CART
              /\ u \in DOMAIN CART => CART'[u] = CART[u]
      ]_vars

C26_Witness ==
    /\ out.uid = 1 /\ out.data = "confirm_order" /\ out.err = None
    /\ 1 \notin DOMAIN CART
    /\ 2 \in DOMAIN CART /\ CART[2]["items"] # <<>> /\ "last_strain" \in DOMAIN CART[2]
    /\ Len(orders) = 1 /\ orders[1].telegram_user = Uname(1)

====
